---- MODULE Spec2Model ----
(***************************************************************************)
(* Model of app.py: the persona-driven conversation state of the           *)
(* Streamlit dashboard.  One script run (one pass over app.py from top to  *)
(* bottom) is one step: the radio widget delivers the selected persona,    *)
(* the chat input delivers a text or None, and the run updates             *)
(* st.session_state.  The external chat-completion service and the plotly  *)
(* figure construction are the environment: their outcome is chosen        *)
(* nondeterministically for every call.                                    *)
(*                                                                         *)
(* Strings are sequences of segments: a user text is a sequence of         *)
(* one-character strings, an f-string is the sequence of its literal and   *)
(* interpolated parts.  A Python value is a record [type, val] so that     *)
(* None and the empty string are distinct from every non-empty string.     *)
(***************************************************************************)
EXTENDS Integers, Sequences, FiniteSets, TLC

VARIABLES
    api_key,            \* app.py:41  credential read from the secrets ("" when absent)
    PLOTLY_AVAILABLE,   \* app.py:12-18  whether plotly could be imported
    messages,           \* st.session_state.messages
    current_persona,    \* st.session_state.current_persona
    selected_persona,   \* value of the radio widget "persona_selector" in the last run
    user_input,         \* value of st.chat_input in the last run (None or a string)
    response,           \* value of generate_ai_response in the last run (unset when not called)
    surfaced,           \* chart and table shown alongside the assistant message in the last run
    requests,           \* requests received by the external service, in order
    outcomes,           \* what the service did with each of them, in the same order
    raised,             \* exception that ended the last run ("" when it ran to its end)
    switches            \* history: number of runs whose selected persona differed from the active one

vars == <<api_key, PLOTLY_AVAILABLE, messages, current_persona, selected_persona,
          user_input, response, surfaced, requests, outcomes, raised, switches>>

----------------------------------------------------------------------------
(* Bounds *)

\* A run is taken only when the message log has room, within MaxLog entries,
\* for what the run can append.
MaxLog == 5

----------------------------------------------------------------------------
(* Python values *)

PyStr(s) == [type |-> "str", val |-> s]
PyNone == [type |-> "NoneType", val |-> <<>>]

\* Python truthiness of None and of a string (`if user_input:`, `if api_key:`).
Truthy(v) == v.type = "str" /\ Len(v.val) > 0

\* sep.join(parts) as a sequence of segments
RECURSIVE Join(_, _)
Join(parts, sep) ==
    IF Len(parts) = 0 THEN <<>>
    ELSE IF Len(parts) = 1 THEN <<parts[1]>>
    ELSE <<parts[1], sep>> \o Join(Tail(parts), sep)

----------------------------------------------------------------------------
(* Persona registry *)

\* list(USER_PERSONAS.keys()): the options of the radio widget, in order
PersonaKeys ==
    <<"sales_executive", "market_researcher", "financial_analyst",
      "strategic_planner", "product_manager">>

Keys == {PersonaKeys[i] : i \in 1..Len(PersonaKeys)}

USER_PERSONAS == [k \in Keys |->
    CASE k = "sales_executive" ->
           [name |-> "Sales Executive",
            description |-> "Focuses on revenue opportunities and sales strategies",
            priorities |-> <<"revenue growth", "client acquisition", "sales metrics">>,
            icon |-> "(money bag)"]
      [] k = "market_researcher" ->
           [name |-> "Market Researcher",
            description |-> "Focuses on market trends and competitive analysis",
            priorities |-> <<"market share", "industry trends", "competitive landscape">>,
            icon |-> "(bar chart)"]
      [] k = "financial_analyst" ->
           [name |-> "Financial Analyst",
            description |-> "Focuses on financial metrics and ROI analysis",
            priorities |-> <<"financial performance", "ROI analysis", "risk assessment">>,
            icon |-> "(chart yen)"]
      [] k = "strategic_planner" ->
           [name |-> "Strategic Planner",
            description |-> "Focuses on long-term strategy and growth opportunities",
            priorities |-> <<"strategic initiatives", "growth opportunities", "market positioning">>,
            icon |-> "(motorway)"]
      [] k = "product_manager" ->
           [name |-> "Product Manager",
            description |-> "Focuses on product opportunities and feature analysis",
            priorities |-> <<"product-market fit", "feature analysis", "customer needs">>,
            icon |-> "(target)"]]

\* persona['name'].lower()
NameLower(name) ==
    CASE name = "Sales Executive" -> "sales executive"
      [] name = "Market Researcher" -> "market researcher"
      [] name = "Financial Analyst" -> "financial analyst"
      [] name = "Strategic Planner" -> "strategic planner"
      [] name = "Product Manager" -> "product manager"
      [] OTHER -> name

----------------------------------------------------------------------------
(* Messages *)

Message(role, content) == [role |-> role, content |-> content]

WelcomeMessage ==
    Message("assistant", PyStr(<<"Welcome! I'm your multi-persona Company Research Assistant. Select your role from the sidebar to get started with customized insights!">>))

SwitchedTo == "Switched to "

\* the f-string of the announcement appended on a persona switch
AnnouncementText(key) ==
    PyStr(<<SwitchedTo, USER_PERSONAS[key].icon, " ", USER_PERSONAS[key].name, " Mode", "\n\n*",
            USER_PERSONAS[key].description, "*\n\n**Focus areas:** ">>
          \o Join(USER_PERSONAS[key].priorities, ", "))

\* value of a script variable that the run did not assign
PyUnset == [type |-> "unset", val |-> <<>>]

IsAnnouncement(m) ==
    /\ m.role = "assistant"
    /\ m.content.type = "str"
    /\ Len(m.content.val) > 0
    /\ m.content.val[1] = SwitchedTo

----------------------------------------------------------------------------
(* Content providers *)

NoChart == [kind |-> "None", title |-> ""]
NoTable == [columns |-> <<>>]

\* The figure of a persona, None without plotly.  figRaises: the plotly calls
\* raise; the function catches that, reports it with st.error and returns None.
create_persona_chart(persona_key, plotly, figRaises) ==
    IF ~plotly THEN [fig |-> NoChart, st_error |-> FALSE]
    ELSE IF figRaises THEN [fig |-> NoChart, st_error |-> TRUE]
    ELSE [st_error |-> FALSE,
          fig |-> CASE persona_key = "sales_executive" ->
                         [kind |-> "Funnel", title |-> "Sales Funnel Performance"]
                    [] persona_key = "market_researcher" ->
                         [kind |-> "Scatterpolar", title |-> "Market Position Analysis"]
                    [] persona_key = "financial_analyst" ->
                         [kind |-> "Bar", title |-> "Financial Performance"]
                    [] persona_key = "strategic_planner" ->
                         [kind |-> "Waterfall", title |-> "Strategic Implementation Timeline"]
                    [] OTHER ->
                         [kind |-> "Scatter", title |-> "Feature Impact vs Effort Analysis"]]

create_persona_data(persona_key) ==
    CASE persona_key = "sales_executive" -> [columns |-> <<"Metric", "Value", "Target">>]
      [] persona_key = "market_researcher" -> [columns |-> <<"Metric", "Value", "Trend">>]
      [] persona_key = "financial_analyst" -> [columns |-> <<"Metric", "Value", "YoY Growth">>]
      [] persona_key = "strategic_planner" ->
           [columns |-> <<"Initiative", "Timeline", "Investment", "ROI Potential">>]
      [] OTHER -> [columns |-> <<"Feature", "User Impact", "Development Effort", "Priority">>]

----------------------------------------------------------------------------
(* Trigger keywords *)

UpperLetters ==
    <<"A","B","C","D","E","F","G","H","I","J","K","L","M",
      "N","O","P","Q","R","S","T","U","V","W","X","Y","Z">>
LowerLetters ==
    <<"a","b","c","d","e","f","g","h","i","j","k","l","m",
      "n","o","p","q","r","s","t","u","v","w","x","y","z">>

LowerChar(c) ==
    IF \E i \in 1..Len(UpperLetters) : UpperLetters[i] = c
    THEN LowerLetters[CHOOSE i \in 1..Len(UpperLetters) : UpperLetters[i] = c]
    ELSE c

\* str.lower()
RECURSIVE Lower(_)
Lower(text) ==
    IF Len(text) = 0 THEN <<>> ELSE <<LowerChar(Head(text))>> \o Lower(Tail(text))

\* `needle in hay` for strings
Contains(hay, needle) ==
    \E i \in 0..(Len(hay) - Len(needle)) :
        \A j \in 1..Len(needle) : hay[i + j] = needle[j]

Keywords ==
    << <<"a","n","a","l","y","z","e">>,
       <<"r","e","s","e","a","r","c","h">>,
       <<"d","a","t","a">>,
       <<"m","e","t","r","i","c","s">> >>

\* Variant: the keywords are matched against the text as typed.
Triggered_caseSensitive(text) ==
    \E n \in 1..Len(Keywords) : Contains(text, Keywords[n])

\* any(keyword in user_input.lower() for keyword in [...])
Triggered(text) ==
    \E low \in {Lower(text)} :
        \E n \in 1..Len(Keywords) : Contains(low, Keywords[n])

NothingSurfaced == [chart |-> NoChart, table |-> NoTable, error |-> FALSE]

\* the keyword block of the chat handler: what is drawn under the response
\* (the chart when the provider returned one, the table, the chart error)
Surface(text, persona_key, plotly, figRaises) ==
    IF Triggered(text)
    THEN [chart |-> IF plotly THEN create_persona_chart(persona_key, plotly, figRaises).fig
                    ELSE NoChart,
          table |-> create_persona_data(persona_key),
          error |-> plotly /\ create_persona_chart(persona_key, plotly, figRaises).st_error]
    ELSE NothingSurfaced

----------------------------------------------------------------------------
(* Response generator *)

prompts == [k \in Keys |->
    CASE k = "sales_executive" -> "You are a sales executive. Focus on revenue opportunities, sales metrics, pipeline value, conversion rates, and actionable sales strategies. Provide specific numbers and revenue projections."
      [] k = "market_researcher" -> "You are a market researcher. Focus on market size, growth rates, competitive analysis, consumer trends, and market share data. Provide comprehensive market intelligence."
      [] k = "financial_analyst" -> "You are a financial analyst. Focus on financial metrics, ROI calculations, risk assessment, valuation, and investment recommendations. Provide precise financial numbers."
      [] k = "strategic_planner" -> "You are a strategic planner. Focus on long-term strategy, growth opportunities, strategic initiatives, and implementation roadmaps. Provide forward-looking insights."
      [] k = "product_manager" -> "You are a product manager. Focus on product opportunities, feature analysis, user needs, and product roadmap. Provide user-centric recommendations."]

system_prompt(persona_key) ==
    <<prompts[persona_key],
      "\n\nAlways provide specific numbers, metrics, and data-driven insights. Use the persona's focus areas: ">>
    \o Join(USER_PERSONAS[persona_key].priorities, ", ")

max_tokens == 1000

\* the arguments of openai.ChatCompletion.create
Request(persona_key, text) ==
    [model |-> "mistralai/mixtral-8x7b-instruct",
     messages |-> <<[role |-> "system", content |-> system_prompt(persona_key)],
                    [role |-> "user", content |-> text]>>,
     temperature |-> "0.3",
     max_tokens |-> max_tokens]

\* the fallback f-string returned when no API key is configured
FallbackText(persona_key) ==
    PyStr(<<"**", USER_PERSONAS[persona_key].name, " Analysis:** As a ",
            NameLower(USER_PERSONAS[persona_key].name),
            ", I would analyze this focusing on ",
            USER_PERSONAS[persona_key].priorities[1],
            ". Based on typical industry data:\n\n- **Key Metric:** 15-25% growth potential\n- **Opportunity Size:** $2-5M addressable market\n- **Implementation Timeline:** 6-12 months\n- **Success Probability:** 70-80%\n\n*Note: Add your OpenRouter API key to secrets.toml for AI-powered analysis*">>)

\* the f-string returned by the except branch
ErrorText(e) ==
    PyStr(<<"**Analysis:** I encountered an error processing your request. Error: ", e>>)

\* What the external service does with one request: the call raises (network,
\* authentication), or it returns a response object with a list of choices,
\* each holding the content of its message (a string, possibly empty, or None).
ServiceOutcomes ==
    {[raises |-> TRUE, error |-> "Error communicating with OpenAI", choices |-> <<>>],
     [raises |-> FALSE, error |-> "", choices |-> <<>>],
     [raises |-> FALSE, error |-> "",
      choices |-> <<[content |-> PyStr(<<"Pipeline value is $2.5M, up 12%.">>)]>>],
     [raises |-> FALSE, error |-> "", choices |-> <<[content |-> PyStr(<<>>)]>>],
     [raises |-> FALSE, error |-> "", choices |-> <<[content |-> PyNone]>>]}

\* Variant: the request is sent whether or not a key is configured.
generate_ai_response_ignoresMissingKey(text, persona_key, key, svc) ==
    [sent |-> <<Request(persona_key, text)>>,
     ret |-> IF svc.raises THEN ErrorText(svc.error)
             ELSE IF Len(svc.choices) = 0 THEN ErrorText("list index out of range")
             ELSE svc.choices[1].content]

\* Variant: a request that raised is sent a second time.
generate_ai_response_retries(text, persona_key, key, svc) ==
    IF Truthy(key)
    THEN [sent |-> IF svc.raises
                   THEN <<Request(persona_key, text), Request(persona_key, text)>>
                   ELSE <<Request(persona_key, text)>>,
          ret |-> IF svc.raises THEN ErrorText(svc.error)
                  ELSE IF Len(svc.choices) = 0 THEN ErrorText("list index out of range")
                  ELSE svc.choices[1].content]
    ELSE [sent |-> <<>>, ret |-> FallbackText(persona_key)]

\* generate_ai_response(user_input, persona_key): the returned value and the
\* requests it sent.  key is the module-level api_key, svc the service's
\* behaviour on the request.
generate_ai_response(text, persona_key, key, svc) ==
    IF Truthy(key)
    THEN [sent |-> <<Request(persona_key, text)>>,
          ret |-> IF svc.raises THEN ErrorText(svc.error)
                  ELSE IF Len(svc.choices) = 0 THEN ErrorText("list index out of range")
                  ELSE svc.choices[1].content]
    ELSE [sent |-> <<>>, ret |-> FallbackText(persona_key)]

----------------------------------------------------------------------------
(* The script run *)

\* Variant: the announcement is appended on every run, without the comparison.
UpdatePersona_alwaysAnnounces(sel, persona, msgs) ==
    [persona |-> sel,
     msgs |-> Append(msgs, Message("assistant", AnnouncementText(sel))),
     raised |-> ""]

\* Variant: a switch starts the log afresh with the announcement.
UpdatePersona_resetsLog(sel, persona, msgs) ==
    IF sel # persona
    THEN [persona |-> sel,
          msgs |-> <<Message("assistant", AnnouncementText(sel))>>,
          raised |-> ""]
    ELSE [persona |-> persona, msgs |-> msgs, raised |-> ""]

\* Variant: the display name is stored as the active persona, not the key.
UpdatePersona_storesName(sel, persona, msgs) ==
    IF sel # persona
    THEN [persona |-> USER_PERSONAS[sel].name,
          msgs |-> Append(msgs, Message("assistant", AnnouncementText(sel))),
          raised |-> ""]
    ELSE [persona |-> persona, msgs |-> msgs, raised |-> ""]

\* "Update current persona": the selected persona against the active one.
\* The announcement looks the selected key up in the registry after the
\* active key is assigned; an unknown key ends the run there with KeyError.
UpdatePersona(sel, persona, msgs) ==
    IF sel # persona
    THEN IF sel \in Keys
         THEN [persona |-> sel,
               msgs |-> Append(msgs, Message("assistant", AnnouncementText(sel))),
               raised |-> ""]
         ELSE [persona |-> sel, msgs |-> msgs, raised |-> "KeyError"]
    ELSE [persona |-> persona, msgs |-> msgs, raised |-> ""]

\* Variant: the assistant message is appended only when the response is truthy.
ChatInput_skipsEmptyReply(chat, persona, msgs, key, plotly, svc, figRaises) ==
    IF Truthy(chat)
    THEN CHOOSE c \in
           {[msgs |-> IF Truthy(gen.ret)
                      THEN Append(Append(msgs, Message("user", PyStr(chat.val))),
                                  Message("assistant", gen.ret))
                      ELSE Append(msgs, Message("user", PyStr(chat.val))),
             response |-> gen.ret,
             surfaced |-> Surface(chat.val, persona, plotly, figRaises),
             sent |-> gen.sent] :
               gen \in {generate_ai_response(chat.val, persona, key, svc)}} : TRUE
    ELSE [msgs |-> msgs, response |-> PyUnset, surfaced |-> NothingSurfaced, sent |-> <<>>]

\* "CHAT INPUT": the handling of the value st.chat_input returned.
\* (gen ranges over the one value of the call, which evaluates it once.)
ChatInput(chat, persona, msgs, key, plotly, svc, figRaises) ==
    IF Truthy(chat)
    THEN CHOOSE c \in
           {[msgs |-> Append(Append(msgs, Message("user", PyStr(chat.val))),
                             Message("assistant", gen.ret)),
             response |-> gen.ret,
             surfaced |-> Surface(chat.val, persona, plotly, figRaises),
             sent |-> gen.sent] :
               gen \in {generate_ai_response(chat.val, persona, key, svc)}} : TRUE
    ELSE [msgs |-> msgs, response |-> PyUnset, surfaced |-> NothingSurfaced, sent |-> <<>>]

\* The rest of a run after the persona update upd: the lookup of the active
\* persona (KeyError ends the run), then the chat input.
AfterUpdate(upd, chat, svc, figRaises) ==
    IF upd.raised # "" \/ upd.persona \notin Keys
    THEN [persona |-> upd.persona, msgs |-> upd.msgs, response |-> PyUnset,
          surfaced |-> NothingSurfaced, sent |-> <<>>, raised |-> "KeyError"]
    ELSE [persona |-> upd.persona, raised |-> ""]
         @@ ChatInput(chat, upd.persona, upd.msgs, api_key, PLOTLY_AVAILABLE, svc, figRaises)

\* Variant: the chat input is handled before the persona update.
RunResult_chatFirst(sel, chat, svc, figRaises) ==
    CHOOSE r \in
      {[persona |-> upd.persona, msgs |-> upd.msgs, response |-> c.response,
        surfaced |-> c.surfaced, sent |-> c.sent, raised |-> upd.raised] :
          upd \in {UpdatePersona(sel, current_persona, c.msgs) :
                     c \in {ChatInput(chat, current_persona, messages, api_key,
                                      PLOTLY_AVAILABLE, svc, figRaises)}},
          c \in {ChatInput(chat, current_persona, messages, api_key,
                           PLOTLY_AVAILABLE, svc, figRaises)}} : TRUE

\* One run of the script on the session state: the persona update first, the
\* chat input after it.
RunResult(sel, chat, svc, figRaises) ==
    CHOOSE r \in {AfterUpdate(upd, chat, svc, figRaises) :
                    upd \in {UpdatePersona(sel, current_persona, messages)}} : TRUE

\* Entries a run with these widget values can append to the log.
Room(sel, chat) ==
    (IF sel # current_persona THEN 1 ELSE 0) + (IF Truthy(chat) THEN 2 ELSE 0)

ScriptRun(sel, chat, svc, figRaises) ==
    /\ raised = ""
    /\ Len(messages) + Room(sel, chat) <= MaxLog
    /\ \E r \in {RunResult(sel, chat, svc, figRaises)} :
       /\ messages' = r.msgs
       /\ messages' = r.msgs
       /\ current_persona' = r.persona
       /\ selected_persona' = sel
       /\ user_input' = chat
       /\ response' = r.response
       /\ surfaced' = r.surfaced
       /\ requests' = requests \o r.sent
       /\ outcomes' = outcomes \o [n \in 1..Len(r.sent) |-> svc]
       /\ raised' = r.raised
       /\ switches' = switches + (IF sel # current_persona THEN 1 ELSE 0)
       /\ UNCHANGED <<api_key, PLOTLY_AVAILABLE>>

----------------------------------------------------------------------------
(* Inputs *)

\* Texts the chat input delivers: the empty text, texts without a keyword
\* ("hi", "metric") and a text with a keyword in upper and lower case.
TextSamples ==
    {<<>>,
     <<"h","i">>,
     <<"m","e","t","r","i","c">>,
     <<"m","y"," ","D","a","T","A">>}

\* The service acts only on a request, so its behaviour is an input of the
\* runs that can send one (a text is submitted and a key is configured).
ServiceInputs(chat) ==
    IF Truthy(chat) /\ Truthy(api_key) THEN ServiceOutcomes
    ELSE {CHOOSE o \in ServiceOutcomes : o.raises}

\* Likewise the figure construction runs only when plotly is there and the
\* text holds a keyword.
FigureInputs(chat) ==
    IF Truthy(chat) /\ PLOTLY_AVAILABLE /\ Triggered(chat.val) THEN BOOLEAN ELSE {FALSE}

\* One script run with the widgets' values sel and chat.
Rerun(sel, chat) ==
    \E svc \in ServiceInputs(chat), figRaises \in FigureInputs(chat) :
        ScriptRun(sel, chat, svc, figRaises)

\* The user picks a persona in the sidebar (possibly the active one); the
\* chat input returns None.
SwitchPersona(newKey) == Rerun(newKey, PyNone)

\* The user submits a text; the radio widget keeps its selection.
Submit(text) == Rerun(selected_persona, PyStr(text))

\* A new selection and a submitted text reach the same run.
SwitchAndSubmit(newKey, text) ==
    /\ newKey # selected_persona
    /\ Rerun(newKey, PyStr(text))

Init ==
    /\ api_key \in {PyStr(<<>>), PyStr(<<"sk-or-v1-key">>)}
    /\ PLOTLY_AVAILABLE \in BOOLEAN
    /\ messages = <<WelcomeMessage>>
    /\ current_persona = "sales_executive"
    /\ selected_persona = PersonaKeys[1]
    /\ user_input = PyNone
    /\ response = PyUnset
    /\ surfaced = NothingSurfaced
    /\ requests = <<>>
    /\ outcomes = <<>>
    /\ raised = ""
    /\ switches = 0

Next ==
    \/ \E newKey \in Keys : SwitchPersona(newKey)
    \/ \E text \in TextSamples : Submit(text)
    \/ \E newKey \in Keys, text \in TextSamples : SwitchAndSubmit(newKey, text)

Spec == Init /\ [][Next]_vars

----------------------------------------------------------------------------
(* Reading the message log *)

UserIdx(msgs) == {i \in 1..Len(msgs) : msgs[i].role = "user"}

Announcements(msgs) == {i \in 1..Len(msgs) : IsAnnouncement(msgs[i])}

Last(S) == CHOOSE x \in S : \A y \in S : y <= x

\* the persona an announcement names
NamedBy(m) == CHOOSE k \in Keys : m.content = AnnouncementText(k)

\* the persona named by the latest announcement before position i, the
\* default persona when there is none
ActiveAt(msgs, i) ==
    IF {j \in Announcements(msgs) : j < i} = {} THEN PersonaKeys[1]
    ELSE NamedBy(msgs[Last({j \in Announcements(msgs) : j < i})])

\* the position of the user message at i among the user messages
Rank(msgs, i) == Cardinality({j \in UserIdx(msgs) : j <= i})

IsPrefix(a, b) == Len(a) <= Len(b) /\ SubSeq(b, 1, Len(a)) = a

HasSegment(str, seg) == \E i \in 1..Len(str) : str[i] = seg

\* the log of a step once the persona update is done: an effective switch
\* has appended one entry
AfterSwitch == Len(messages) + (IF current_persona' # current_persona THEN 1 ELSE 0)

----------------------------------------------------------------------------
(* C1 *)

\* C1: after every sequence of runs the number of persona-switch announcements
\* in the log equals the number of runs whose selected key differed from the
\* active key; a run that selects the active persona and submits nothing
\* leaves the log and the active key as they were.
C1_AnnouncementsCountSwitches ==
    /\ [](Cardinality(Announcements(messages)) = switches)
    /\ [][(selected_persona' = current_persona /\ ~Truthy(user_input'))
            => (messages' = messages /\ current_persona' = current_persona)]_vars

\* two effective switches, a submit, then a run that selects the active persona
C1_Witness ==
    /\ switches = 2
    /\ Cardinality(Announcements(messages)) = 2
    /\ UserIdx(messages) # {}
    /\ user_input = PyNone
    /\ ~IsAnnouncement(messages[Len(messages)])

----------------------------------------------------------------------------
(* C2 *)

\* C2: a run whose submitted text is non-empty appends exactly two entries
\* after the persona update: the user message with the text, then the
\* assistant message with the value the response generator returned for the
\* text and the active persona (on the success, failure and no-key paths); a
\* run with an empty text or none appends nothing after the persona update.
C2_SubmitAppendsUserThenAssistant ==
    [][IF Truthy(user_input')
       THEN /\ Len(messages') = AfterSwitch + 2
            /\ messages'[AfterSwitch + 1] = Message("user", user_input')
            /\ messages'[AfterSwitch + 2] = Message("assistant", response')
            /\ response' \in {generate_ai_response(user_input'.val, current_persona',
                                                    api_key, o).ret : o \in ServiceOutcomes}
       ELSE Len(messages') = AfterSwitch]_vars

\* a submit whose request raised: the log ends with the text and the error text
C2_Witness ==
    /\ Truthy(user_input)
    /\ Len(outcomes) > 0
    /\ outcomes[Len(outcomes)].raises
    /\ Len(messages) >= 3
    /\ messages[Len(messages) - 1] = Message("user", user_input)
    /\ messages[Len(messages)] = Message("assistant", ErrorText(outcomes[Len(outcomes)].error))

----------------------------------------------------------------------------
(* C3 *)

\* C3: generate_ai_response never raises and always returns a non-empty
\* string, whatever the service does (stated of the value the last run got
\* from it).
C3_ResponseIsNonEmptyString ==
    /\ raised = ""
    /\ response # PyUnset => (response.type = "str" /\ Len(response.val) > 0)

----------------------------------------------------------------------------
(* C4 *)

\* C4: without a key no request reaches the service, and every reply is a
\* string that holds the display name and the first priority of the persona
\* active at the submit, the same string for the same persona whatever the
\* text.
C4_FallbackWithoutKey ==
    ~Truthy(api_key) =>
        /\ requests = <<>>
        /\ \A i \in UserIdx(messages) :
              /\ i < Len(messages)
              /\ messages[i + 1].role = "assistant"
              /\ messages[i + 1].content.type = "str"
              /\ HasSegment(messages[i + 1].content.val,
                            USER_PERSONAS[ActiveAt(messages, i)].name)
              /\ HasSegment(messages[i + 1].content.val,
                            USER_PERSONAS[ActiveAt(messages, i)].priorities[1])
        /\ \A i, j \in UserIdx(messages) :
              ActiveAt(messages, i) = ActiveAt(messages, j)
                  => messages[i + 1] = messages[j + 1]

\* no key, two different texts submitted under one persona
C4_Witness ==
    /\ ~Truthy(api_key)
    /\ \E i, j \in UserIdx(messages) :
          /\ messages[i].content # messages[j].content
          /\ ActiveAt(messages, i) = ActiveAt(messages, j)
          /\ messages[i + 1] = messages[j + 1]

----------------------------------------------------------------------------
(* C5 *)

\* C5: the log starts as the welcome message alone and every step keeps the
\* log it found as a prefix of the log it leaves, so the welcome message
\* stays first.
C5_LogAppendOnly ==
    /\ messages = <<WelcomeMessage>>
    /\ [](messages[1] = WelcomeMessage)
    /\ [][IsPrefix(messages, messages')]_vars

\* a log holding an announcement and a submit after the welcome message
C5_Witness ==
    /\ Len(messages) >= 4
    /\ Announcements(messages) # {}
    /\ UserIdx(messages) # {}

----------------------------------------------------------------------------
(* C6 *)

\* C6: the active persona key is sales_executive at first and always a
\* registry key, no run ends with KeyError, and the key changes only in a run
\* whose selected key differs from it (to that key, with the announcement),
\* never in a run that keeps the selection.
C6_ActivePersonaInRegistry ==
    /\ current_persona = "sales_executive"
    /\ [](current_persona \in Keys /\ raised = "")
    /\ [][current_persona' # current_persona
            => /\ selected_persona' # current_persona
               /\ current_persona' = selected_persona'
               /\ IsAnnouncement(messages'[Len(messages) + 1])]_vars
    /\ [][selected_persona' = selected_persona => current_persona' = current_persona]_vars

\* a submit handled under the last persona of the registry
C6_Witness ==
    /\ current_persona = "product_manager"
    /\ Truthy(user_input)
    /\ response # PyUnset

----------------------------------------------------------------------------
(* C7 *)

\* C7: an effective switch appends the announcement of the new persona first,
\* before the user message of the same run and of every later run, and once;
\* every reply is generated for the persona named by the latest announcement
\* before its user message (the default persona when there is none).
C7_SwitchBeforeSubmit ==
    /\ [][current_persona' # current_persona
            => /\ IsPrefix(messages, messages')
               /\ messages'[Len(messages) + 1]
                    = Message("assistant", AnnouncementText(current_persona'))
               /\ Cardinality(Announcements(messages'))
                    = Cardinality(Announcements(messages)) + 1]_vars
    /\ [](ActiveAt(messages, Len(messages) + 1) = current_persona)
    /\ [](\A i \in UserIdx(messages) :
            IF Truthy(api_key)
            THEN /\ Rank(messages, i) <= Len(requests)
                 /\ requests[Rank(messages, i)].messages[1].content
                      = system_prompt(ActiveAt(messages, i))
            ELSE /\ i < Len(messages)
                 /\ messages[i + 1].content = FallbackText(ActiveAt(messages, i)))

\* an announcement directly followed by a user message and its reply
C7_Witness ==
    \E i \in Announcements(messages) :
        /\ i + 2 <= Len(messages)
        /\ messages[i + 1].role = "user"
        /\ NamedBy(messages[i]) = "financial_analyst"
        /\ Truthy(api_key)

----------------------------------------------------------------------------
(* C9 *)

\* C9: with a key every submit sends one request, also when it raises; the
\* request carries two messages, the system instruction of the persona active
\* at the submit (its role directive and its priorities) and the submitted
\* text, and nothing of the log; the reply to a request that raised is the
\* error text.
C9_OneRequestPerSubmit ==
    /\ [][Len(requests') - Len(requests)
            = (IF Truthy(user_input') /\ Truthy(api_key) THEN 1 ELSE 0)]_vars
    /\ [](Truthy(api_key) =>
            /\ Len(requests) = Cardinality(UserIdx(messages))
            /\ Len(outcomes) = Len(requests)
            /\ \A i \in UserIdx(messages) :
                  /\ requests[Rank(messages, i)]
                       = Request(ActiveAt(messages, i), messages[i].content.val)
                  /\ Len(requests[Rank(messages, i)].messages) = 2
                  /\ requests[Rank(messages, i)].messages[1].role = "system"
                  /\ HasSegment(requests[Rank(messages, i)].messages[1].content,
                                prompts[ActiveAt(messages, i)])
                  /\ \A n \in 1..3 :
                        HasSegment(requests[Rank(messages, i)].messages[1].content,
                                   USER_PERSONAS[ActiveAt(messages, i)].priorities[n])
                  /\ requests[Rank(messages, i)].messages[2]
                       = [role |-> "user", content |-> messages[i].content.val]
                  /\ outcomes[Rank(messages, i)].raises
                       => messages[i + 1]
                            = Message("assistant",
                                      ErrorText(outcomes[Rank(messages, i)].error)))

\* two submits with a key, the second request raised
C9_Witness ==
    /\ Truthy(api_key)
    /\ Len(requests) = 2
    /\ ~outcomes[1].raises
    /\ outcomes[2].raises
    /\ messages[Len(messages)].content = ErrorText(outcomes[2].error)

----------------------------------------------------------------------------
(* C10 *)

SameLetter(a, b) ==
    \/ a = b
    \/ \E n \in 1..Len(UpperLetters) : {a, b} = {UpperLetters[n], LowerLetters[n]}

\* the text holds one of the keywords, in any letter case
HoldsKeyword(text) ==
    \E n \in 1..Len(Keywords) :
        \E i \in 0..(Len(text) - Len(Keywords[n])) :
            \A j \in 1..Len(Keywords[n]) : SameLetter(text[i + j], Keywords[n][j])

\* what a run with a submitted text leaves in the session state
SubmitLeavesTwoMessages ==
    Truthy(user_input') =>
        /\ current_persona' = selected_persona'
        /\ Len(messages') = AfterSwitch + 2
        /\ SubSeq(messages', AfterSwitch + 1, AfterSwitch + 2)
             = <<Message("user", user_input'), Message("assistant", response')>>

\* C10 as stated: a submitted text with a keyword (any letter case) surfaces
\* both the chart and the table of the active persona, a text without one
\* surfaces neither, and the session state does not depend on the keyword.
C10_ChartAndTableOnKeyword ==
    /\ [](Truthy(user_input) =>
            IF HoldsKeyword(user_input.val)
            THEN surfaced.chart # NoChart /\ surfaced.table # NoTable
            ELSE surfaced = NothingSurfaced)
    /\ [][SubmitLeavesTwoMessages]_vars

\* C10 amended: a submitted text with a keyword (any letter case) surfaces
\* the table of the active persona, and its chart exactly when plotly is
\* available and the figure was built without error; a text without a keyword
\* surfaces neither; the session state does not depend on the keyword.
C10_TableAndAvailableChartOnKeyword ==
    /\ [](Truthy(user_input) =>
            IF HoldsKeyword(user_input.val)
            THEN /\ surfaced.table = create_persona_data(current_persona)
                 /\ surfaced.table # NoTable
                 /\ surfaced.error => PLOTLY_AVAILABLE
                 /\ surfaced.chart =
                      (IF PLOTLY_AVAILABLE /\ ~surfaced.error
                       THEN create_persona_chart(current_persona, TRUE, FALSE).fig
                       ELSE NoChart)
                 /\ (PLOTLY_AVAILABLE /\ ~surfaced.error) => surfaced.chart # NoChart
            ELSE surfaced = NothingSurfaced)
    /\ [][SubmitLeavesTwoMessages]_vars

\* a keyword typed in upper case, plotly missing: the table without the chart
C10_Witness ==
    /\ ~PLOTLY_AVAILABLE
    /\ Truthy(user_input)
    /\ HoldsKeyword(user_input.val)
    /\ \A n \in 1..Len(Keywords) : ~Contains(user_input.val, Keywords[n])
    /\ surfaced.table = create_persona_data(current_persona)
    /\ surfaced.chart = NoChart
    /\ current_persona # "sales_executive"

====
